---- MODULE Spec2Model ----
(***************************************************************************)
(* A model of ScreepsClient (the Screeps console client): the SockJS-style *)
(* framing codec, the inner-message dispatcher, the console channel        *)
(* handler, the connect / disconnect lifecycle and the command path.       *)
(*                                                                         *)
(* Text is modelled character by character: a string is a sequence of     *)
(* one-character strings, so that startsWith, split, JSON.parse and        *)
(* JSON.stringify are computed the way the code computes them.             *)
(***************************************************************************)
EXTENDS Integers, Sequences, FiniteSets, TLC

(***************************************************************************)
(* Bounds of the model.                                                    *)
(***************************************************************************)
\* connect() calls made in one run (each opens at most one transport)
MaxConnects == 2
\* command requests in flight at one time
MaxInflight == 1
\* length of the application messages the codec specification enumerates
MaxLen == 3

(***************************************************************************)
(* Strings.                                                                *)
(***************************************************************************)
\* null or undefined, where a string is expected
None == <<"<none>">>
\* null or undefined, where a transport or a promise is expected
Null == 0

\* String.prototype.startsWith
StartsWith(s, p) == Len(s) >= Len(p) /\ SubSeq(s, 1, Len(p)) = p

\* String.prototype.endsWith
EndsWith(s, p) == Len(s) >= Len(p) /\ SubSeq(s, Len(s) - Len(p) + 1, Len(s)) = p

\* String.prototype.substring(n)
Substring(s, n) == SubSeq(s, n + 1, Len(s))

RECURSIVE SplitFrom(_, _, _, _)
SplitFrom(s, i, cur, acc) ==
    IF i > Len(s) THEN Append(acc, cur)
    ELSE IF s[i] = " " THEN SplitFrom(s, i + 1, <<>>, Append(acc, cur))
    ELSE SplitFrom(s, i + 1, Append(cur, s[i]), acc)

\* String.prototype.split(' ')
Split(s) == SplitFrom(s, 1, <<>>, <<>>)

RECURSIVE TrimLeft(_)
TrimLeft(s) == IF s # <<>> /\ Head(s) = " " THEN TrimLeft(Tail(s)) ELSE s

RECURSIVE TrimRight(_)
TrimRight(s) ==
    IF s # <<>> /\ s[Len(s)] = " " THEN TrimRight(SubSeq(s, 1, Len(s) - 1)) ELSE s

\* String.prototype.trim
Trim(s) == TrimRight(TrimLeft(s))

(***************************************************************************)
(* JSON values: a tagged record, the tag first so that two values of       *)
(* different kinds are told apart by the tag alone.                        *)
(*   str: v is the characters      num: v is the lexeme (an integer)       *)
(*   lit: v is true / false / null arr: v is the sequence of elements      *)
(*   obj: v is the sequence of <<key, value>> members, in text order       *)
(***************************************************************************)
JStr(s) == [t |-> "str", v |-> s]
JNum(s) == [t |-> "num", v |-> s]
JLit(s) == [t |-> "lit", v |-> s]
JArr(s) == [t |-> "arr", v |-> s]
JObj(s) == [t |-> "obj", v |-> s]

TrueChars == <<"t", "r", "u", "e">>
FalseChars == <<"f", "a", "l", "s", "e">>
NullChars == <<"n", "u", "l", "l">>

\* the value of a missing property or argument
Undefined == [t |-> "undefined", v |-> <<>>]

Digits == {"0", "1", "2", "3", "4", "5", "6", "7", "8", "9"}
HexDigits == Digits \cup {"a", "b", "c", "d", "e", "f", "A", "B", "C", "D", "E", "F"}

\* control characters, named; JSON writes them as a two-character escape
ControlOf(e) ==
    CASE e = "b" -> "<BS>" [] e = "f" -> "<FF>" [] e = "n" -> "<LF>"
      [] e = "r" -> "<CR>" [] e = "t" -> "<TAB>"
ControlChars == {"<BS>", "<FF>", "<LF>", "<CR>", "<TAB>"}
EscapeOf(c) ==
    CASE c = "<BS>" -> "b" [] c = "<FF>" -> "f" [] c = "<LF>" -> "n"
      [] c = "<CR>" -> "r" [] c = "<TAB>" -> "t"

ParseFail == [ok |-> FALSE]
ParseOk(val, next) == [ok |-> TRUE, val |-> val, next |-> next]

RECURSIVE SkipWs(_, _)
SkipWs(s, i) == IF i <= Len(s) /\ s[i] = " " THEN SkipWs(s, i + 1) ELSE i

RECURSIVE Flatten(_, _, _)
\* parts[lo] \o ... \o parts[hi]
Flatten(parts, lo, hi) ==
    IF lo > hi THEN <<>>
    ELSE IF lo = hi THEN parts[lo]
    ELSE LET mid == (lo + hi) \div 2
         IN  Flatten(parts, lo, mid) \o Flatten(parts, mid + 1, hi)

RECURSIVE BackslashRun(_, _, _)
\* how many backslashes stand right before position j, from position i on
BackslashRun(s, i, j) ==
    IF j > i /\ s[j - 1] = "\\" THEN 1 + BackslashRun(s, i, j - 1) ELSE 0

Escaped(s, i, j) == BackslashRun(s, i, j) % 2 = 1

\* position j holds one of the four hexadecimal digits of an escaped u
InUnicodeEscape(s, i, j) ==
    \E q \in (j - 4)..(j - 1) : q >= i /\ s[q] = "u" /\ Escaped(s, i, q)

\* what the character at position j of a string literal's body stands for:
\* <<c>>, <<>> for the backslash that starts an escape, None when it is no JSON
StringPart(s, i, j, close) ==
    IF InUnicodeEscape(s, i, j) THEN (IF s[j] \in HexDigits THEN <<>> ELSE None)
    ELSE IF Escaped(s, i, j) THEN
        IF s[j] \in {"\"", "\\", "/"} THEN <<s[j]>>
        ELSE IF s[j] \in {"b", "f", "n", "r", "t"} THEN <<ControlOf(s[j])>>
        \* a code unit written in hexadecimal: kept as one opaque character
        ELSE IF s[j] = "u" /\ j + 4 < close THEN <<"<U+>">>
        ELSE None
    ELSE IF s[j] = "\\" THEN <<>>
    ELSE IF s[j] \in ControlChars THEN None
    ELSE <<s[j]>>

\* the string of a JSON string literal whose body is positions i to close - 1
CharsTo(s, i, close) ==
    IF \E j \in i..(close - 1) : StringPart(s, i, j, close) = None THEN ParseFail
    ELSE ParseOk(JStr(Flatten([n \in 1..(close - i) |-> StringPart(s, i, i + n - 1, close)],
                              1, close - i)),
                 close + 1)

\* the string of a JSON string literal, from the character after its opening quote
ParseChars(s, i) ==
    LET quotes == { j \in i..Len(s) : s[j] = "\"" /\ ~Escaped(s, i, j) } IN
    IF quotes = {} THEN ParseFail
    ELSE CharsTo(s, i, CHOOSE j \in quotes : \A q \in quotes : j <= q)

RECURSIVE DigitsEnd(_, _)
DigitsEnd(s, i) == IF i <= Len(s) /\ s[i] \in Digits THEN DigitsEnd(s, i + 1) ELSE i

\* a JSON number; the model reads integers (no fraction, no exponent)
ParseNumber(s, i) ==
    LET j == IF s[i] = "-" THEN i + 1 ELSE i
        k == IF j <= Len(s) /\ s[j] = "0" THEN j + 1 ELSE DigitsEnd(s, j)
    IN  IF k = j THEN ParseFail ELSE ParseOk(JNum(SubSeq(s, i, k - 1)), k)

ParseLiteral(s, i, word) ==
    IF i + Len(word) - 1 <= Len(s) /\ SubSeq(s, i, i + Len(word) - 1) = word
    THEN ParseOk(JLit(word), i + Len(word))
    ELSE ParseFail

RECURSIVE ParseValue(_, _), ParseElements(_, _, _), ParseMembers(_, _, _)
ParseValue(s, i0) ==
    LET i == SkipWs(s, i0) IN
    IF i > Len(s) THEN ParseFail
    ELSE IF s[i] = "\"" THEN ParseChars(s, i + 1)
    ELSE IF s[i] = "[" THEN ParseElements(s, i + 1, <<>>)
    ELSE IF s[i] = "{" THEN ParseMembers(s, i + 1, <<>>)
    ELSE IF s[i] = "-" \/ s[i] \in Digits THEN ParseNumber(s, i)
    ELSE IF s[i] = "t" THEN ParseLiteral(s, i, TrueChars)
    ELSE IF s[i] = "f" THEN ParseLiteral(s, i, FalseChars)
    ELSE IF s[i] = "n" THEN ParseLiteral(s, i, NullChars)
    ELSE ParseFail

\* after the elements acc, at position k: the closing bracket or a comma
ElementsNext(s, k, acc) ==
    IF k > Len(s) THEN ParseFail
    ELSE IF s[k] = "]" THEN ParseOk(JArr(acc), k + 1)
    ELSE IF s[k] = "," THEN ParseElements(s, k + 1, acc)
    ELSE ParseFail

\* the element e was read after the elements acc
ElementRead(s, e, acc) ==
    IF ~e.ok THEN ParseFail
    ELSE ElementsNext(s, SkipWs(s, e.next), Append(acc, e.val))

\* the elements of an array, from position i0 to the closing bracket
ParseElements(s, i0, acc) ==
    LET i == SkipWs(s, i0) IN
    IF acc = <<>> /\ i <= Len(s) /\ s[i] = "]" THEN ParseOk(JArr(<<>>), i + 1)
    ELSE ElementRead(s, ParseValue(s, i), acc)

\* after the members acc, at position k: the closing brace or a comma
MembersNext(s, k, acc) ==
    IF k > Len(s) THEN ParseFail
    ELSE IF s[k] = "}" THEN ParseOk(JObj(acc), k + 1)
    ELSE IF s[k] = "," THEN ParseMembers(s, k + 1, acc)
    ELSE ParseFail

\* the value e of the member key was read after the members acc
MemberRead(s, key, e, acc) ==
    IF ~e.ok THEN ParseFail
    ELSE MembersNext(s, SkipWs(s, e.next), Append(acc, <<key.val.v, e.val>>))

\* after the key of a member, at position c: the colon and the value
MemberValue(s, key, c, acc) ==
    IF c > Len(s) \/ s[c] # ":" THEN ParseFail
    ELSE MemberRead(s, key, ParseValue(s, c + 1), acc)

\* the key of a member was read after the members acc
KeyRead(s, key, acc) ==
    IF ~key.ok THEN ParseFail
    ELSE MemberValue(s, key, SkipWs(s, key.next), acc)

\* the members of an object, from position i to the closing brace
ParseMembers(s, i, acc) ==
    LET j == SkipWs(s, i) IN
    IF acc = <<>> /\ j <= Len(s) /\ s[j] = "}" THEN ParseOk(JObj(<<>>), j + 1)
    ELSE IF j > Len(s) \/ s[j] # "\"" THEN ParseFail
    ELSE KeyRead(s, ParseChars(s, j + 1), acc)

\* one value and nothing after it
Whole(s, r) == IF r.ok /\ SkipWs(s, r.next) = Len(s) + 1 THEN r ELSE ParseFail

\* JSON.parse; ok = FALSE when it throws
JSONparse(s) == Whole(s, ParseValue(s, 1))

\* a variant that writes every character as it is, escaping nothing
QuoteCharRaw(c) == <<c>>

QuoteChar(c) ==
    IF c \in {"\"", "\\"} THEN <<"\\", c>>
    ELSE IF c \in ControlChars THEN <<"\\", EscapeOf(c)>>
    ELSE <<c>>

\* JSON.stringify of a string
Quote(s) ==
    <<"\"">> \o Flatten([n \in 1..Len(s) |-> QuoteChar(s[n])], 1, Len(s)) \o <<"\"">>

RECURSIVE JSONstringify(_), StringifyElements(_), StringifyMembers(_)
\* JSON.stringify
JSONstringify(x) ==
    CASE x.t = "str" -> Quote(x.v)
      [] x.t = "num" -> x.v
      [] x.t = "lit" -> x.v
      [] x.t = "arr" -> <<"[">> \o StringifyElements(x.v) \o <<"]">>
      [] x.t = "obj" -> <<"{">> \o StringifyMembers(x.v) \o <<"}">>

StringifyElements(s) ==
    IF s = <<>> THEN <<>>
    ELSE JSONstringify(Head(s))
         \o (IF Len(s) > 1 THEN <<",">> \o StringifyElements(Tail(s)) ELSE <<>>)

StringifyMembers(s) ==
    IF s = <<>> THEN <<>>
    ELSE Quote(Head(s)[1]) \o <<":">> \o JSONstringify(Head(s)[2])
         \o (IF Len(s) > 1 THEN <<",">> \o StringifyMembers(Tail(s)) ELSE <<>>)

(***************************************************************************)
(* JavaScript's reading of a parsed value.                                 *)
(***************************************************************************)
IsNullish(x) == x.t = "undefined" \/ (x.t = "lit" /\ x.v = NullChars)

\* ToBoolean
Truthy(x) ==
    CASE x.t = "str" -> x.v # <<>>
      [] x.t = "num" -> x.v \notin {<<"0">>, <<"-", "0">>}
      [] x.t = "lit" -> x.v = TrueChars
      [] x.t = "undefined" -> FALSE
      [] OTHER -> TRUE

RECURSIVE Lookup(_, _, _)
Lookup(members, key, found) ==
    IF members = <<>> THEN found
    ELSE Lookup(Tail(members), key,
                IF Head(members)[1] = key THEN Head(members)[2] ELSE found)

\* x.key, for a value x that is neither null nor undefined
Get(x, key) == IF x.t = "obj" THEN Lookup(x.v, key, Undefined) ELSE Undefined

\* what for-of and array destructuring accept
Iterable(x) == x.t \in {"arr", "str"}
Elements(x) == IF x.t = "arr" THEN x.v ELSE [i \in 1..Len(x.v) |-> JStr(<<x.v[i]>>)]

RECURSIVE ToStr(_), JoinStr(_)
\* the string a template literal makes of a value
ToStr(x) ==
    CASE x.t = "str" -> x.v
      [] x.t = "num" -> IF x.v = <<"-", "0">> THEN <<"0">> ELSE x.v
      [] x.t = "lit" -> x.v
      [] x.t = "arr" -> JoinStr(x.v)
      [] x.t = "obj" -> <<"[", "o", "b", "j", "e", "c", "t", " ", "O", "b", "j", "e", "c", "t", "]">>
      [] x.t = "undefined" -> <<"u", "n", "d", "e", "f", "i", "n", "e", "d">>

JoinStr(s) ==
    IF s = <<>> THEN <<>>
    ELSE (IF IsNullish(Head(s)) THEN <<>> ELSE ToStr(Head(s)))
         \o (IF Len(s) > 1 THEN <<",">> \o JoinStr(Tail(s)) ELSE <<>>)

(***************************************************************************)
(* The words of the protocol.                                              *)
(***************************************************************************)
AuthOkChars == <<"a", "u", "t", "h", " ", "o", "k">>
AuthFailedChars == <<"a", "u", "t", "h", " ", "f", "a", "i", "l", "e", "d">>
TimeChars == <<"t", "i", "m", "e">>
AuthChars == <<"a", "u", "t", "h", " ">>
SubscribeChars ==
    <<"s", "u", "b", "s", "c", "r", "i", "b", "e", " ", "u", "s", "e", "r", ":">>
ConsoleChars == <<"/", "c", "o", "n", "s", "o", "l", "e">>
ShardChars == <<"s", "h", "a", "r", "d">>
MessagesChars == <<"m", "e", "s", "s", "a", "g", "e", "s">>
LogChars == <<"l", "o", "g">>
ResultsChars == <<"r", "e", "s", "u", "l", "t", "s">>
ErrorChars == <<"e", "r", "r", "o", "r">>
ResultPrefix == <<"R", "e", "s", "u", "l", "t", ":", " ">>
ErrorPrefix == <<"E", "r", "r", "o", "r", ":", " ">>

(***************************************************************************)
(* The client.  An operator of the client takes the object's fields as a   *)
(* record st and gives the record after the call; st.fx is the ordered     *)
(* list of what the call did to the outside: events emitted, frames sent,  *)
(* callbacks and promise settlements, writes of the connected flag.        *)
(* sock is the state of every transport (read by sendSockJS).              *)
(***************************************************************************)
Do(st, e) == [st EXCEPT !.fx = Append(@, e)]

\* EventEmitter.emit
Emit(st, channel, value) == Do(st, <<"emit", channel, value>>)

\* this.connected = b
SetConnected(st, b) == Do([st EXCEPT !.connected = b], <<"connected", b>>)

\* WebSocket.readyState
ReadyState(state) ==
    CASE state \in {"ABORTED", "ERRORED"} -> "CLOSING"
      [] OTHER -> state

\* a variant that replaces the credential and tells nobody
setTokenSilent(st, tok) ==
    IF tok = <<>> \/ tok = st.token THEN st ELSE [st EXCEPT !.token = tok]

setToken(st, tok) ==
    IF tok = <<>> \/ tok = st.token THEN st
    ELSE Do([st EXCEPT !.token = tok], <<"onToken", tok>>)

\* headers is [lc |-> the x-token header, uc |-> the X-Token header], None when absent
updateTokenFromHeaders(st, headers) ==
    LET nextToken == IF headers.lc # None THEN headers.lc ELSE headers.uc
    IN  IF nextToken # None /\ Trim(nextToken) # <<>>
        THEN setToken(st, Trim(nextToken))
        ELSE st

sendSockJS(st, sock, msg) ==
    IF st.ws # Null /\ ReadyState(sock[st.ws]) = "OPEN"
    THEN Do(st, <<"send", st.ws, JSONstringify(JArr(<<JStr(msg)>>))>>)
    ELSE st

\* a variant that authenticates with the credential the client was made with
authenticateWebSocketStale(st, sock) ==
    IF st.ws = Null THEN st ELSE sendSockJS(st, sock, AuthChars \o <<"t", "0">>)

authenticateWebSocket(st, sock) ==
    IF st.ws = Null THEN st ELSE sendSockJS(st, sock, AuthChars \o st.token)

subscribeConsole(st, sock) ==
    IF st.ws = Null \/ st.userId = None THEN st
    ELSE Emit(sendSockJS(st, sock, SubscribeChars \o st.userId \o ConsoleChars),
              "log", "Subscribed to console.")

RECURSIVE EmitEach(_, _, _)
\* for (const x of xs) this.emit('console', prefix + x)
EmitEach(st, xs, prefix) ==
    IF xs = <<>> THEN st
    ELSE EmitEach(Emit(st, "console",
                       IF prefix = <<>> THEN Head(xs)
                       ELSE JStr(prefix \o ToStr(Head(xs)))),
                  Tail(xs), prefix)

Threw(st) == [st |-> st, threw |-> TRUE]
Returned(st) == [st |-> st, threw |-> FALSE]

\* a variant that emits the result entries bare, like log lines
ConsoleResultsUnmarked(st, results) ==
    IF ~Truthy(results) THEN Returned(st)
    ELSE IF ~Iterable(results) THEN Threw(st)
    ELSE Returned(EmitEach(st, Elements(results), <<>>))

\* if (results) for (const res of results) ...
ConsoleResults(st, results) ==
    IF ~Truthy(results) THEN Returned(st)
    ELSE IF ~Iterable(results) THEN Threw(st)
    ELSE Returned(EmitEach(st, Elements(results), ResultPrefix))

\* if (log) for (const line of log) ...; then the results
ConsoleLog(st, log, results) ==
    IF ~Truthy(log) THEN ConsoleResults(st, results)
    ELSE IF ~Iterable(log) THEN Threw(st)
    ELSE ConsoleResults(EmitEach(st, Elements(log), <<>>), results)

\* a variant that reports the error of a payload whether or not it has messages
ConsoleBodyErrorFirst(st, messages, error) ==
    IF Truthy(error)
    THEN Returned(Emit(st, "console", JStr(ErrorPrefix \o ToStr(error))))
    ELSE IF Truthy(messages)
    THEN ConsoleLog(st, Get(messages, LogChars), Get(messages, ResultsChars))
    ELSE Returned(st)

\* if (payload.messages) ... else if (payload.error) ...
ConsoleBody(st, messages, error) ==
    IF Truthy(messages)
    THEN ConsoleLog(st, Get(messages, LogChars), Get(messages, ResultsChars))
    ELSE IF Truthy(error)
    THEN Returned(Emit(st, "console", JStr(ErrorPrefix \o ToStr(error))))
    ELSE Returned(st)

\* if (payload.shard) this.activeShard = payload.shard
ConsoleShard(st, shard) == IF Truthy(shard) THEN [st EXCEPT !.activeShard = shard] ELSE st

\* gives [st |-> the record after, threw |-> whether a TypeError left the call]
handleConsolePayload(st, payload) ==
    IF IsNullish(payload) THEN Threw(st)
    ELSE ConsoleBody(ConsoleShard(st, Get(payload, ShardChars)),
                     Get(payload, MessagesChars), Get(payload, ErrorChars))

\* the call made of a handle's resolve or of its reject, with the error's message
Settlement(how, h) ==
    CASE how = "ok" -> <<"resolve", h>>
      [] how = "failed" -> <<"reject", h, "WebSocket authentication failed.">>
      [] how = "closed" -> <<"reject", h, "WebSocket closed before authentication completed.">>
      [] how = "error" -> <<"reject", h, "WebSocket error">>

\* const pending = this.pendingConnect; this.pendingConnect = undefined; settle it
TakePending(st, how) ==
    IF st.pendingConnect = Null THEN st
    ELSE Do([st EXCEPT !.pendingConnect = Null], Settlement(how, st.pendingConnect))

\* a variant that marks the connection connected before it rotates the credential
OnAuthOkConnectedFirst(st, sock, msg) ==
    TakePending(
        Emit(subscribeConsole(
                 setToken(SetConnected(Emit(st, "log", "WebSocket Authentication successful."),
                                       TRUE),
                          IF Len(Split(msg)) >= 3 THEN Split(msg)[3] ELSE <<>>),
                 sock),
             "status", "connected"),
        "ok")

OnAuthOk(st, sock, msg) ==
    TakePending(
        Emit(subscribeConsole(
                 SetConnected(
                     setToken(Emit(st, "log", "WebSocket Authentication successful."),
                              \* parts.length >= 3 ? parts[2] : undefined
                              IF Len(Split(msg)) >= 3 THEN Split(msg)[3] ELSE <<>>),
                     TRUE),
                 sock),
             "status", "connected"),
        "ok")

\* a variant that reports the failure and leaves the pending connect unsettled
OnAuthFailedUnsettled(st) ==
    Emit(Emit(st, "error", "WebSocket Authentication failed."), "status", "disconnected")

OnAuthFailed(st) ==
    TakePending(Emit(Emit(st, "error", "WebSocket Authentication failed."),
                     "status", "disconnected"),
                "failed")

\* if (channel && channel.endsWith('/console')) this.handleConsolePayload(payload)
OnChannelPayload(st, channel, payload) ==
    IF channel.t = "str" /\ EndsWith(channel.v, ConsoleChars)
    THEN handleConsolePayload(st, payload).st
    ELSE st

\* const [channel, payload] = parsed
Destructure(st, parts) ==
    OnChannelPayload(st, IF Len(parts) >= 1 THEN parts[1] ELSE Undefined,
                         IF Len(parts) >= 2 THEN parts[2] ELSE Undefined)

OnParsed(st, p) ==
    IF ~p.ok \/ ~Iterable(p.val) THEN st ELSE Destructure(st, Elements(p.val))

\* the channel message: a failure inside the try block is caught and ignored
OnChannel(st, msg) == OnParsed(st, JSONparse(msg))

Route(st, sock, msg) ==
    IF StartsWith(msg, AuthOkChars) THEN OnAuthOk(st, sock, msg)
    ELSE IF StartsWith(msg, AuthFailedChars) THEN OnAuthFailed(st)
    ELSE IF StartsWith(msg, TimeChars) THEN st
    ELSE IF StartsWith(msg, <<"[">>) THEN OnChannel(st, msg)
    ELSE st

\* msg is the characters of a string
processInnerMessage(st, sock, msg) == Route(Do(st, <<"dispatch", msg>>), sock, msg)

RECURSIVE ProcessAll(_, _, _)
\* the loop of handleMessage; an element that is no string has no startsWith,
\* and the TypeError ends the loop in the catch block
ProcessAll(st, sock, msgs) ==
    IF msgs = <<>> THEN st
    ELSE IF Head(msgs).t # "str" THEN Do(st, <<"console.error">>)
    ELSE ProcessAll(processInnerMessage(st, sock, Head(msgs).v), sock, Tail(msgs))

\* const messages = JSON.parse(data.substring(1)); for (const msg of messages) ...
OnArray(st, sock, p) ==
    IF ~p.ok \/ ~Iterable(p.val) THEN Do(st, <<"console.error">>)
    ELSE ProcessAll(st, sock, Elements(p.val))

\* a variant that reads every frame that is no open frame and no heartbeat as an
\* array frame
handleMessageUnmarked(st, sock, data) ==
    IF StartsWith(data, <<"o">>) THEN st
    ELSE IF StartsWith(data, <<"h">>) THEN st
    ELSE OnArray(st, sock, JSONparse(Substring(data, 1)))

handleMessage(st, sock, data) ==
    IF StartsWith(data, <<"o">>) THEN st
    ELSE IF StartsWith(data, <<"h">>) THEN st
    ELSE IF StartsWith(data, <<"a">>) THEN OnArray(st, sock, JSONparse(Substring(data, 1)))
    ELSE st

\* if (this.ws) { this.intentionalClose = true; this.ws.close(); this.ws = undefined }
CloseCurrent(st) ==
    IF st.ws # Null
    THEN Do([st EXCEPT !.intentionalClose = TRUE, !.ws = Null], <<"close", st.ws>>)
    ELSE st

Silently(st, silent) == IF ~silent THEN Emit(st, "status", "disconnected") ELSE st

\* a variant that leaves the pending-connect slot as it is
closeWebSocketKeepPending(st, silent) ==
    Silently(SetConnected(CloseCurrent(st), FALSE), silent)

closeWebSocket(st, silent) ==
    Silently([SetConnected(CloseCurrent(st), FALSE) EXCEPT !.pendingConnect = Null], silent)

\* a variant that closes silently
disconnectSilent(st) == closeWebSocket(st, TRUE)

disconnect(st) == closeWebSocket(st, FALSE)

\* k is the transport that new WebSocket(url) makes, and the promise made with it
connectWebSocket(st, k) ==
    [Do(Emit([closeWebSocket(st, TRUE) EXCEPT !.intentionalClose = FALSE],
             "log", "Connecting to WebSocket"),
        <<"new", k>>)
     EXCEPT !.ws = k, !.pendingConnect = k]

OnOpen(st, sock) == authenticateWebSocket(Emit(st, "log", "WebSocket connected."), sock)

\* if (!this.intentionalClose && wasConnected) this.emit('status', 'disconnected')
Unexpected(st, intentional, wasConnected) ==
    IF ~intentional /\ wasConnected THEN Emit(st, "status", "disconnected") ELSE st

\* a variant that reads the connected flag after it has cleared it
OnCloseReadsFlagLate(st) ==
    Unexpected(TakePending(SetConnected(Emit(st, "log", "WebSocket disconnected."), FALSE),
                           "closed"),
               st.intentionalClose, FALSE)

OnClose(st) ==
    Unexpected(TakePending(SetConnected(Emit(st, "log", "WebSocket disconnected."), FALSE),
                           "closed"),
               st.intentionalClose, st.connected)

\* a variant that rejects the pending connect and leaves it in the slot
OnErrorKeepsHandle(st) ==
    IF st.pendingConnect = Null THEN Emit(st, "error", "WebSocket error")
    ELSE Do(Emit(st, "error", "WebSocket error"), Settlement("error", st.pendingConnect))

\* a variant that starts over with a new identity request
OnErrorRetries(st) ==
    Do(TakePending(Emit(st, "error", "WebSocket error"), "error"), <<"http", "GET", st.token>>)

\* a variant that also clears the connected flag
OnErrorDisconnects(st) ==
    SetConnected(TakePending(Emit(st, "error", "WebSocket error"), "error"), FALSE)

OnError(st) == TakePending(Emit(st, "error", "WebSocket error"), "error")

\* a variant that keeps the shard it has
setActiveShardIgnored(st, shard) == st

setActiveShard(st, shard) == [st EXCEPT !.activeShard = shard]

(***************************************************************************)
(* The state.                                                              *)
(*   token .. pendingConnect  the fields of the ScreepsClient object       *)
(*   sock      the state of each transport: "none" before new WebSocket,   *)
(*             then CONNECTING, OPEN, CLOSING or ABORTED (close() called   *)
(*             before it opened), ERRORED ('error' emitted), CLOSED        *)
(*   settled   for each promise of connectWebSocket, how many calls were   *)
(*             made of its resolve and reject functions                    *)
(*   pc        where each connect() call is: idle (not called), http       *)
(*             (awaiting the identity request), ws (awaiting the promise   *)
(*             of connectWebSocket), done (returned or thrown)             *)
(*   inflight  command requests awaiting their response                    *)
(*   last, pre the step taken last, with its input, and the fields and     *)
(*             transports before it                                        *)
(*   effects   what the step did to the outside, in order                  *)
(*   after     what the connect() call that the step resumed or ended did  *)
(*             once the step's own code returned: its catch block, and     *)
(*             whether it returned or threw                                *)
(* Transport k and promise k are the ones made by the k-th connect() call. *)
(***************************************************************************)
VARIABLES token, userId, ws, connected, activeShard, intentionalClose,
          pendingConnect, sock, settled, pc, inflight, last, pre, effects, after

fields == <<token, userId, ws, connected, activeShard, intentionalClose, pendingConnect>>
vars == <<token, userId, ws, connected, activeShard, intentionalClose,
          pendingConnect, sock, settled, pc, inflight, last, pre, effects, after>>

Calls == 1..MaxConnects

(***************************************************************************)
(* The inputs.                                                             *)
(***************************************************************************)
T0 == <<"t", "0">>
T1 == <<"t", "1">>
T2 == <<"t", "2">>
U1 == <<"u", "1">>
U2 == <<"u", "2">>
Shard3 == ShardChars \o <<"3">>
Shard2 == ShardChars \o <<"2">>
Shard0 == ShardChars \o <<"0">>

\* the response headers of an HTTP request
NoHeaders == [lc |-> None, uc |-> None]
HeaderSet ==
    { NoHeaders,
      [lc |-> T1, uc |-> None],
      [lc |-> None, uc |-> <<" ">> \o T2 \o <<" ">>],
      [lc |-> <<" ">>, uc |-> T2] }

\* the outcome of GET /api/auth/me: it fails, or answers with an _id (None: no _id)
IdentityResponse(headers, ids) ==
    { [ok |-> FALSE, headers |-> NoHeaders, id |-> None] }
    \cup { [ok |-> TRUE, headers |-> h, id |-> i] : h \in headers, i \in ids }

\* the outcome of POST /api/user/console
CommandResponses ==
    { [ok |-> FALSE, headers |-> NoHeaders] }
    \cup { [ok |-> TRUE, headers |-> h] : h \in HeaderSet }

\* what the server sends: an array frame of inner messages
ArrayFrame(msgs) == <<"a">> \o JSONstringify(JArr(msgs))
\* an inner message ["user:<id>/console", payload]
ChannelMessage(payload) ==
    JStr(JSONstringify(JArr(<<JStr(<<"u", "s", "e", "r", ":">> \o U1 \o ConsoleChars), payload>>)))

Payload(shard, log, results) ==
    JObj((IF shard = None THEN <<>> ELSE << <<ShardChars, JStr(shard)>> >>)
         \o << <<MessagesChars,
                 JObj(<< <<LogChars, JArr(log)>>, <<ResultsChars, JArr(results)>> >>)>> >>)

\* console payloads with a shard, a log sequence L and a result sequence R
ShardPayloads ==
    { [shard |-> s, log |-> l, results |-> r] :
        s \in {Shard2, Shard0},
        l \in { <<>>, <<JStr(<<"a">>), JStr(<<"b">>)>> },
        r \in { <<>>, <<JNum(<<"4", "2">>)>>, <<JStr(<<"x">>), JLit(NullChars)>> } }
PayloadFrame(p) ==
    ArrayFrame(<<ChannelMessage(Payload(p.shard, p.log, p.results))>>)

AuthOkFrame(tok) ==
    ArrayFrame(<<JStr(IF tok = None THEN AuthOkChars ELSE AuthOkChars \o <<" ">> \o tok)>>)
AuthFailedFrame == ArrayFrame(<<JStr(AuthFailedChars)>>)
HandshakeFrames == { AuthOkFrame(None), AuthOkFrame(T2), AuthFailedFrame }

\* frames that are no array frame, and array frames whose JSON is malformed
OtherFrames == { <<"o">>, <<"h">>, <<>>, <<"c", "[", "3", "]">>, <<"[", "\"", "h", "\"", "]">> }
MalformedFrames == { <<"a">>, <<"a", "[", "\"", "a", "u", "t", "h", " ", "o", "k">>,
                     <<"a", "[", "\"", "x", "\"", ",", "]">> }

\* the inputs of the lifecycle specification
Frames == HandshakeFrames \cup { <<"h">>, <<"a", "[", "\"", "a", "u", "t", "h", " ", "o", "k">> }
Identities == IdentityResponse({NoHeaders, [lc |-> T1, uc |-> None]}, {None, U1, U2})

\* the elements of array frames with more than one inner message: a tick before
\* the handshake reply, messages the dispatcher ignores or drops before it, and
\* an element that is no string before it
InnerLists ==
    { <<JStr(TimeChars \o <<" ", "1">>), JStr(AuthOkChars)>>,
      <<JStr(<<"x">>), JStr(<<"[", "x">>), JStr(AuthOkChars)>>,
      <<JNum(<<"1">>), JStr(AuthOkChars)>> }

\* console payloads without messages, with an error, and malformed ones
Reports ==
    [errorOnly |-> JObj(<< <<ErrorChars, JStr(<<"e">>)>> >>),
     neither |-> JObj(<<>>),
     both |-> JObj(<< <<MessagesChars, JObj(<< <<LogChars, JArr(<<JStr(<<"a">>)>>)>> >>)>>,
                      <<ErrorChars, JStr(<<"e">>)>> >>),
     null |-> JLit(NullChars),
     badLog |-> JObj(<< <<ShardChars, JStr(Shard2)>>,
                        <<MessagesChars, JObj(<< <<LogChars, JNum(<<"5">>)>> >>)>> >>),
     badResults |-> JObj(<< <<MessagesChars,
                             JObj(<< <<LogChars, JArr(<<JStr(<<"a">>)>>)>>,
                                     <<ResultsChars, JNum(<<"5">>)>> >>)>> >>)]

\* channel messages that are not for the console channel handler: another
\* channel, text that does not parse, and a channel that is no string
DroppedFrames ==
    { ArrayFrame(<<JStr(JSONstringify(JArr(<<JStr(<<"u", "s", "e", "r", ":">> \o U1
                                                  \o <<"/", "c", "p", "u">>),
                                             Payload(Shard2, <<JStr(<<"a">>)>>, <<>>)>>)))>>),
      ArrayFrame(<<JStr(<<"[", "x">>)>>),
      ArrayFrame(<<JStr(JSONstringify(JArr(<<JNum(<<"1">>),
                                             Payload(Shard2, <<JStr(<<"a">>)>>, <<>>)>>)))>>) }

\* the inputs of the session specification
SessionFrames ==
    HandshakeFrames
    \cup { ArrayFrame(l) : l \in InnerLists }
    \cup { ArrayFrame(<<JStr(TimeChars \o <<" ", "1">>)>>) }
    \cup { PayloadFrame(p) : p \in ShardPayloads }
    \cup { PayloadFrame([shard |-> None, log |-> <<JStr(<<"a">>)>>, results |-> <<>>]) }
    \cup OtherFrames \cup MalformedFrames
SessionIdentities == IdentityResponse(HeaderSet, {None, <<>>, U1})

\* the application messages of the codec specification
CodecMessages == UNION { [1..n -> {"a", "[", "\"", "\\", " "}] : n \in 0..MaxLen }

(***************************************************************************)
(* The steps.                                                              *)
(***************************************************************************)
\* the object's fields, at the start of a call
This ==
    [token |-> token, userId |-> userId, ws |-> ws, connected |-> connected,
     activeShard |-> activeShard, intentionalClose |-> intentionalClose,
     pendingConnect |-> pendingConnect, fx |-> <<>>]

Snapshot ==
    [token |-> token, userId |-> userId, ws |-> ws, connected |-> connected,
     activeShard |-> activeShard, intentionalClose |-> intentionalClose,
     pendingConnect |-> pendingConnect, sock |-> sock, pc |-> pc]

\* WebSocket.close()
CloseCall(state) ==
    CASE state = "CONNECTING" -> "ABORTED"
      [] state = "OPEN" -> "CLOSING"
      [] OTHER -> state

IsTag(e, tag) == e[1] = tag
Closes(fx) == { fx[i][2] : i \in { j \in 1..Len(fx) : IsTag(fx[j], "close") } }
News(fx) == { fx[i][2] : i \in { j \in 1..Len(fx) : IsTag(fx[j], "new") } }
Settles(fx) == SelectSeq(fx, LAMBDA e : IsTag(e, "resolve") \/ IsTag(e, "reject"))

\* the transports after the calls of new WebSocket and close() in fx
SockAfter(fx, s0) ==
    [k \in Calls |-> IF k \in News(fx) THEN "CONNECTING"
                     ELSE IF k \in Closes(fx) THEN CloseCall(s0[k])
                     ELSE s0[k]]

\* what a connect() call does when it is resumed: it returns, or runs its catch
\* block and throws
ConnectReturn(k) == << <<"return", k>> >>
ConnectCatch(k, message) ==
    << <<"emit", "status", "disconnected">>,
       <<"emit", "error", <<"Connection failed", message>>>>,
       <<"throw", k>> >>

\* the promises after the settlements in fx (the calls made of each one's resolve
\* and reject are counted, to two), and the connect() call that awaits the
\* promise settled resumed
SettleAll(fx) ==
    LET s == Settles(fx)
        first == IF s # <<>> /\ settled[s[1][2]] = 0 THEN s[1] ELSE <<>>
    IN  /\ settled' = [k \in Calls |->
                         LET n == settled[k] + Len(SelectSeq(s, LAMBDA e : e[2] = k))
                         IN  IF n > 2 THEN 2 ELSE n]
        /\ IF first # <<>> /\ pc[first[2]] = "ws"
           THEN /\ pc' = [pc EXCEPT ![first[2]] = "done"]
                /\ after' = IF IsTag(first, "resolve") THEN ConnectReturn(first[2])
                            ELSE ConnectCatch(first[2], first[3])
           ELSE /\ pc' = pc
                /\ after' = <<>>

\* the fields and the effects of a call that ran to st, with the transports in s0
Apply(st, s0) ==
    /\ token' = st.token
    /\ userId' = st.userId
    /\ ws' = st.ws
    /\ connected' = st.connected
    /\ activeShard' = st.activeShard
    /\ intentionalClose' = st.intentionalClose
    /\ pendingConnect' = st.pendingConnect
    /\ effects' = st.fx
    /\ sock' = SockAfter(st.fx, s0)
    /\ pre' = Snapshot

\* a handler of the transport ran to st: the fields, the effects, the promises
Handled(st, s0) == Apply(st, s0) /\ SettleAll(st.fx)

Label(op, k, arg) == [op |-> op, k |-> k, arg |-> arg]

Init ==
    /\ token = T0
    /\ userId = None
    /\ ws = Null
    /\ connected = FALSE
    /\ activeShard = JStr(Shard3)
    /\ intentionalClose = FALSE
    /\ pendingConnect = Null
    /\ sock = [k \in Calls |-> "none"]
    /\ settled = [k \in Calls |-> 0]
    /\ pc = [k \in Calls |-> "idle"]
    /\ inflight = 0
    /\ last = Label("init", 0, None)
    /\ pre = Snapshot
    /\ effects = <<>>
    /\ after = <<>>

\* connect(), to its first await
ConnectStart(st) ==
    Do(Emit(Emit(st, "status", "connecting"), "log", "Authenticating..."),
       <<"http", "GET", st.token>>)

NextCall(k) == pc[k] = "idle" /\ \A j \in 1..(k - 1) : pc[j] # "idle"

Connect(k) ==
    /\ NextCall(k)
    /\ IF pendingConnect # Null
       THEN /\ Apply(This, sock)
            /\ pc' = [pc EXCEPT ![k] = "done"]
            /\ after' = ConnectReturn(k)
       ELSE /\ Apply(ConnectStart(This), sock)
            /\ pc' = [pc EXCEPT ![k] = "http"]
            /\ after' = <<>>
    /\ last' = Label("connect", k, None)
    /\ UNCHANGED <<settled, inflight>>

\* a variant that stores the _id of the response before it looks at it
ConnectIdentifiedStoresFirst(st, k, id) ==
    IF id = None \/ id = <<>> THEN Threw([st EXCEPT !.userId = None])
    ELSE Returned(connectWebSocket(
                      Emit([st EXCEPT !.userId = id], "log", "Authenticated as user ID"), k))

\* this.userId = response.data._id; ...; await this.connectWebSocket()
ConnectIdentified(st, k, id) ==
    IF id = None \/ id = <<>> THEN Threw(st)
    ELSE Returned(connectWebSocket(
                      Emit([st EXCEPT !.userId = id], "log", "Authenticated as user ID"), k))

\* a variant that goes on to the transport without looking at the _id
ConnectResumeUnchecked(st, k, r) ==
    IF ~r.ok THEN Threw(st)
    ELSE Returned(connectWebSocket(updateTokenFromHeaders(st, r.headers), k))

\* connect(), resumed with the response of the identity request
ConnectResume(st, k, r) ==
    IF ~r.ok THEN Threw(st)
    ELSE ConnectIdentified(updateTokenFromHeaders(st, r.headers), k, r.id)

\* the connect() call k ran to c after the response r
Resumed(k, r, c) ==
    /\ Apply(c.st, sock)
    /\ pc' = [pc EXCEPT ![k] = IF c.threw THEN "done" ELSE "ws"]
    /\ after' = IF c.threw
                THEN ConnectCatch(k, IF r.ok THEN "Failed to retrieve user ID"
                                     ELSE "Request failed")
                ELSE <<>>

IdentityResponded(k, r) ==
    /\ pc[k] = "http"
    /\ Resumed(k, r, ConnectResume(This, k, r))
    /\ last' = Label("identity", k, r)
    /\ UNCHANGED <<settled, inflight>>

\* the transport's 'open' event
WsOpen(k) ==
    /\ sock[k] = "CONNECTING"
    /\ Apply(OnOpen(This, [sock EXCEPT ![k] = "OPEN"]), [sock EXCEPT ![k] = "OPEN"])
    /\ last' = Label("open", k, None)
    /\ after' = <<>>
    /\ UNCHANGED <<settled, pc, inflight>>

\* the transport's 'message' event
WsMessage(k, data) ==
    /\ sock[k] \in {"OPEN", "CLOSING"}
    /\ Handled(handleMessage(This, sock, data), sock)
    /\ last' = Label("message", k, data)
    /\ UNCHANGED inflight

\* the transport's 'error' event
WsError(k) ==
    /\ sock[k] \in {"CONNECTING", "OPEN", "CLOSING", "ABORTED"}
    /\ Handled(OnError(This), [sock EXCEPT ![k] = "ERRORED"])
    /\ last' = Label("error", k, None)
    /\ UNCHANGED inflight

\* the transport's 'close' event
WsClose(k) ==
    /\ sock[k] \in {"OPEN", "CLOSING", "ERRORED"}
    /\ Handled(OnClose(This), [sock EXCEPT ![k] = "CLOSED"])
    /\ last' = Label("close", k, None)
    /\ UNCHANGED inflight

Disconnect ==
    /\ Apply(disconnect(This), sock)
    /\ last' = Label("disconnect", 0, None)
    /\ after' = <<>>
    /\ UNCHANGED <<settled, pc, inflight>>

SetActiveShard(shard) ==
    /\ Apply(setActiveShard(This, JStr(shard)), sock)
    /\ last' = Label("setActiveShard", 0, shard)
    /\ after' = <<>>
    /\ UNCHANGED <<settled, pc, inflight>>

\* a variant that makes the request whether or not an identity is there
CommandStartUnguarded(st, expression) ==
    [st |-> Do(st, <<"http", "POST", st.token, expression, st.activeShard>>),
     sent |-> TRUE]

\* sendCommand(), to its await; sent tells whether the request was made
CommandStart(st, expression) ==
    IF st.userId = None
    THEN [st |-> Emit(st, "error", "Cannot send command: Not authenticated."),
          sent |-> FALSE]
    ELSE [st |-> Do(st, <<"http", "POST", st.token, expression, st.activeShard>>),
          sent |-> TRUE]

Requested(c) ==
    /\ c.sent => inflight < MaxInflight
    /\ Apply(c.st, sock)
    /\ inflight' = IF c.sent THEN inflight + 1 ELSE inflight

SendCommand(expression) ==
    /\ Requested(CommandStart(This, expression))
    /\ last' = Label("sendCommand", 0, expression)
    /\ after' = <<>>
    /\ UNCHANGED <<settled, pc>>

\* a variant that gives the connection up when the request failed
CommandResumeDisconnects(st, r) ==
    IF r.ok THEN updateTokenFromHeaders(st, r.headers)
    ELSE closeWebSocket(Emit(st, "error", "Command failed"), FALSE)

\* sendCommand(), resumed with the response of the command request
CommandResume(st, r) ==
    IF r.ok THEN updateTokenFromHeaders(st, r.headers)
    ELSE Emit(st, "error", "Command failed")

CommandResponse(r) ==
    /\ inflight > 0
    /\ Apply(CommandResume(This, r), sock)
    /\ inflight' = inflight - 1
    /\ last' = Label("commandResponse", 0, r)
    /\ after' = <<>>
    /\ UNCHANGED <<settled, pc>>

(***************************************************************************)
(* The lifecycle specification: up to MaxConnects calls of connect(), each *)
(* with its identity request and its transport, and disconnect(), in any   *)
(* interleaving.                                                           *)
(***************************************************************************)
Next ==
    \/ \E k \in Calls : Connect(k)
    \/ \E k \in Calls, r \in Identities : IdentityResponded(k, r)
    \/ \E k \in Calls : WsOpen(k)
    \/ \E k \in Calls, data \in Frames : WsMessage(k, data)
    \/ \E k \in Calls : WsError(k)
    \/ \E k \in Calls : WsClose(k)
    \/ Disconnect

Spec == Init /\ [][Next]_vars

(***************************************************************************)
(* The lifecycle under the assumptions that every identity request is      *)
(* answered and that every transport delivers its events: one that is      *)
(* connecting opens, one whose opening was aborted reports the error, and  *)
(* every transport that opened or failed is closed in the end.  connect()  *)
(* and disconnect() are the caller's to make, and no frame is promised.    *)
(***************************************************************************)
FairSpec ==
    /\ Spec
    /\ \A k \in Calls : WF_vars(\E r \in Identities : IdentityResponded(k, r))
    /\ \A k \in Calls : WF_vars(WsOpen(k))
    /\ \A k \in Calls : WF_vars(sock[k] = "ABORTED" /\ WsError(k))
    /\ \A k \in Calls : WF_vars(WsClose(k))

(***************************************************************************)
(* The session specification: one call of connect(), with the command path *)
(* (setActiveShard, sendCommand) and every frame, header and identity of   *)
(* the inputs above.                                                       *)
(***************************************************************************)
SessionNext ==
    \/ Connect(1)
    \/ \E r \in SessionIdentities : IdentityResponded(1, r)
    \/ WsOpen(1)
    \/ \E data \in SessionFrames : WsMessage(1, data)
    \/ WsError(1)
    \/ WsClose(1)
    \/ Disconnect
    \/ \E shard \in {Shard0, Shard3} : SetActiveShard(shard)
    \/ SendCommand(<<"G", "a", "m", "e">>)
    \/ \E r \in CommandResponses : CommandResponse(r)

SessionSpec == Init /\ [][SessionNext]_vars

(***************************************************************************)
(* The codec specification: an application message is sent on an open      *)
(* transport, and the frame that was written is handed to the 'message'    *)
(* handler, as it is and behind the marker of an array frame.              *)
(***************************************************************************)
CodecInit ==
    /\ token = T0
    /\ userId = U1
    /\ ws = 1
    /\ connected = TRUE
    /\ activeShard = JStr(Shard3)
    /\ intentionalClose = FALSE
    /\ pendingConnect = Null
    /\ sock = [k \in Calls |-> IF k = 1 THEN "OPEN" ELSE "none"]
    /\ settled = [k \in Calls |-> IF k = 1 THEN 1 ELSE 0]
    /\ pc = [k \in Calls |-> IF k = 1 THEN "done" ELSE "idle"]
    /\ inflight = 0
    /\ \E m \in CodecMessages : last = Label("message", 0, [msg |-> m, data |-> <<>>])
    /\ pre = Snapshot
    /\ effects = <<>>
    /\ after = <<>>

\* the frame that ws.send was given
Written(st, msg) ==
    /\ Apply(st, sock)
    /\ last' = Label("encode", ws, [msg |-> msg, data |-> st.fx[1][3]])

Encode ==
    /\ last.op = "message"
    /\ Written(sendSockJS(This, sock, last.arg.msg), last.arg.msg)
    /\ after' = <<>>
    /\ UNCHANGED <<settled, pc, inflight>>

Delivered(op, msg, data) ==
    /\ Handled(handleMessage(This, sock, data), sock)
    /\ last' = Label(op, ws, [msg |-> msg, data |-> data])

\* the frame written, handed to the 'message' handler behind prefix
Decode(op, prefix) ==
    /\ last.op = "encode"
    /\ Delivered(op, last.arg.msg, prefix \o last.arg.data)
    /\ UNCHANGED inflight

CodecNext ==
    \/ Encode
    \/ Decode("decode", <<>>)
    \/ Decode("decodeArray", <<"a">>)

CodecSpec == CodecInit /\ [][CodecNext]_vars

(***************************************************************************)
(* The console specification: a connected client receives channel messages *)
(* (console payloads with and without shard, messages, error; malformed    *)
(* payloads; other channels; text that does not parse), and the user       *)
(* selects shards and sends commands.                                      *)
(***************************************************************************)
ConsoleInit ==
    /\ token = T0
    /\ userId = U1
    /\ ws = 1
    /\ connected = TRUE
    /\ activeShard = JStr(Shard3)
    /\ intentionalClose = FALSE
    /\ pendingConnect = Null
    /\ sock = [k \in Calls |-> IF k = 1 THEN "OPEN" ELSE "none"]
    /\ settled = [k \in Calls |-> IF k = 1 THEN 1 ELSE 0]
    /\ pc = [k \in Calls |-> IF k = 1 THEN "done" ELSE "idle"]
    /\ inflight = 0
    /\ last = Label("init", 0, None)
    /\ pre = Snapshot
    /\ effects = <<>>
    /\ after = <<>>

ConsoleNext ==
    \/ \E p \in ShardPayloads : WsMessage(1, PayloadFrame(p))
    \/ \E n \in DOMAIN Reports : WsMessage(1, ArrayFrame(<<ChannelMessage(Reports[n])>>))
    \/ \E data \in DroppedFrames : WsMessage(1, data)
    \/ \E shard \in {Shard0, Shard3} : SetActiveShard(shard)
    \/ SendCommand(<<"G", "a", "m", "e">>)
    \/ \E r \in CommandResponses : CommandResponse(r)

ConsoleSpec == ConsoleInit /\ [][ConsoleNext]_vars

(***************************************************************************)
(* What the steps did, read from the labels.                               *)
(***************************************************************************)
FieldsOf(s) ==
    <<s.token, s.userId, s.ws, s.connected, s.activeShard, s.intentionalClose,
      s.pendingConnect>>

\* the effects of the kinds named, in the order they were made
OfKind(fx, tags) == SelectSeq(fx, LAMBDA e : e[1] \in tags)

\* the values emitted on a channel, in order
EventsOn(fx, channel) ==
    LET es == SelectSeq(fx, LAMBDA e : IsTag(e, "emit") /\ e[2] = channel)
    IN  [i \in 1..Len(es) |-> es[i][3]]

\* the inner messages dispatched, in order
Dispatched(fx) ==
    LET es == OfKind(fx, {"dispatch"}) IN [i \in 1..Len(es) |-> es[i][2]]

SubscribeFrame(id) == JSONstringify(JArr(<<JStr(SubscribeChars \o id \o ConsoleChars)>>))

Incomplete(state) == { k \in Calls : state[k] \in {"http", "ws"} }

\* the step taken last was the 'message' handler, given this frame
GotFrame(data) == last.op = "message" /\ last.arg = data

(***************************************************************************)
(* C1.  A connect() call made while an earlier connect() call has not      *)
(* completed (its identity request or its handshake is still awaited) is a *)
(* no-op: it returns at once, emits nothing, starts no request and changes *)
(* no field, so that the two calls open one transport and make one handle. *)
(***************************************************************************)
C1_SecondConnectIsNoOp ==
    (last.op = "connect" /\ Incomplete(pre.pc) # {})
        => /\ effects = <<>>
           /\ after = ConnectReturn(last.k)
           /\ pc[last.k] = "done"
           /\ fields = FieldsOf(pre)

(***************************************************************************)
(* C2.  As claimed: on "auth ok <tok>" with a connect pending, the client  *)
(* marks the connection connected, then invokes the credential-rotation    *)
(* callback with <tok>, then sends the subscribe message, then resolves    *)
(* the pending connect, each once.                                         *)
(***************************************************************************)
C2_ConnectedBeforeCallback ==
    (GotFrame(AuthOkFrame(T2)) /\ pre.pendingConnect # Null)
        => OfKind(effects, {"connected", "onToken", "send", "resolve"})
               = << <<"connected", TRUE>>,
                    <<"onToken", T2>>,
                    <<"send", pre.ws, SubscribeFrame(pre.userId)>>,
                    <<"resolve", pre.pendingConnect>> >>

(***************************************************************************)
(* C2, amended.  On "auth ok" or "auth ok <tok>" with a connect pending,   *)
(* the client first invokes the credential-rotation callback with <tok>    *)
(* (only when <tok> is there and differs from the credential it holds),    *)
(* then marks the connection connected, then sends the subscribe message   *)
(* (only when the current transport is open), then resolves the pending    *)
(* connect; each at most once, the second and the fourth exactly once.     *)
(***************************************************************************)
C2_AuthOkOrder ==
    \A tok \in {None, T2} :
        (GotFrame(AuthOkFrame(tok)) /\ pre.pendingConnect # Null /\ pre.ws # Null)
            => /\ OfKind(effects, {"connected", "onToken", "send", "resolve"})
                    = (IF tok # None /\ tok # pre.token
                       THEN << <<"onToken", tok>> >> ELSE <<>>)
                      \o << <<"connected", TRUE>> >>
                      \o (IF ReadyState(pre.sock[pre.ws]) = "OPEN"
                          THEN << <<"send", pre.ws, SubscribeFrame(pre.userId)>> >>
                          ELSE <<>>)
                      \o << <<"resolve", pre.pendingConnect>> >>
               /\ connected
               /\ pendingConnect = Null

\* all four effects were made by one "auth ok <tok>"
C2_Witness ==
    /\ GotFrame(AuthOkFrame(T2))
    /\ pre.pendingConnect # Null
    /\ Len(OfKind(effects, {"connected", "onToken", "send", "resolve"})) = 4

(***************************************************************************)
(* C3.  On "auth failed" with a connect pending, the client emits an error *)
(* event and a disconnected status event and rejects the pending connect   *)
(* with the authentication failure; it sends nothing and the connected     *)
(* flag is not set.                                                        *)
(***************************************************************************)
C3_AuthFailed ==
    (GotFrame(AuthFailedFrame) /\ pre.pendingConnect # Null)
        => /\ effects = << <<"dispatch", AuthFailedChars>>,
                           <<"emit", "error", "WebSocket Authentication failed.">>,
                           <<"emit", "status", "disconnected">>,
                           Settlement("failed", pre.pendingConnect) >>
           /\ ~connected
           /\ pendingConnect = Null
           /\ settled[pre.pendingConnect] = 1

\* the rejection reached the connect() call that awaited the handle
C3_Witness ==
    /\ GotFrame(AuthFailedFrame)
    /\ pre.pendingConnect # Null
    /\ after # <<>>

(***************************************************************************)
(* C4.  For every console channel payload with shard s, log sequence L and *)
(* result sequence R, handling the payload sets Active Shard to s and      *)
(* emits exactly |L| + |R| console events: the entries of L in order, then *)
(* the entries of R in order, each behind the result prefix.               *)
(***************************************************************************)
C4_ConsolePayload ==
    last.op = "message" =>
        \A p \in ShardPayloads :
            last.arg = PayloadFrame(p)
                => /\ activeShard = JStr(p.shard)
                   /\ EventsOn(effects, "console")
                        = p.log \o [i \in 1..Len(p.results) |->
                                        JStr(ResultPrefix \o p.results[i].v)]
                   /\ Len(EventsOn(effects, "console")) = Len(p.log) + Len(p.results)

\* {shard: "shard2", messages: {log: ["a", "b"], results: [42]}} moved Active Shard
C4_Witness ==
    /\ GotFrame(PayloadFrame([shard |-> Shard2,
                              log |-> <<JStr(<<"a">>), JStr(<<"b">>)>>,
                              results |-> <<JNum(<<"4", "2">>)>>]))
    /\ pre.activeShard # JStr(Shard2)
    /\ Len(EventsOn(effects, "console")) = 3

(***************************************************************************)
(* C5.  As claimed: the frame the encoder writes for an application        *)
(* message m, handed to the decoder, dispatches exactly one inner message, *)
(* equal to m.                                                             *)
(***************************************************************************)
C5_RoundTrip == last.op = "decode" => Dispatched(effects) = <<last.arg.msg>>

(***************************************************************************)
(* C5, amended.  The frame the encoder writes for m is a JSON array with   *)
(* no frame marker: handed to the decoder as it is, it dispatches nothing; *)
(* behind the marker 'a' of an array frame, it dispatches exactly one      *)
(* inner message, equal to m.                                              *)
(***************************************************************************)
C5_MarkedRoundTrip ==
    /\ last.op = "encode" => Head(last.arg.data) = "["
    /\ last.op = "decode" => Dispatched(effects) = <<>>
    /\ last.op = "decodeArray" => Dispatched(effects) = <<last.arg.msg>>

\* a message with a quote and a backslash came back
C5_Witness ==
    /\ last.op = "decodeArray"
    /\ \E i, j \in DOMAIN last.arg.msg : last.arg.msg[i] = "\"" /\ last.arg.msg[j] = "\\"
    /\ Dispatched(effects) = <<last.arg.msg>>

(***************************************************************************)
(* C6.  Only a frame whose first character is 'a' has inner messages       *)
(* dispatched: a frame that starts with 'o', 'h' or anything else          *)
(* dispatches nothing, emits nothing and changes no state of the client; a *)
(* frame 'a' followed by malformed JSON dispatches nothing, is logged and  *)
(* dropped inside the handler, closes no transport and changes no state.   *)
(***************************************************************************)
C6_OnlyArrayFrames ==
    last.op = "message" =>
        /\ ~StartsWith(last.arg, <<"a">>)
               => /\ effects = <<>>
                  /\ fields = FieldsOf(pre) /\ sock = pre.sock /\ pc = pre.pc
                  /\ after = <<>>
        /\ last.arg \in MalformedFrames
               => /\ effects = << <<"console.error">> >>
                  /\ fields = FieldsOf(pre) /\ sock = pre.sock /\ pc = pre.pc
                  /\ after = <<>>

\* malformed JSON behind the marker, on a connected client
C6_Witness ==
    /\ GotFrame(<<"a", "[", "\"", "x", "\"", ",", "]">>)
    /\ pre.connected
    /\ connected

(***************************************************************************)
(* C7.  sendCommand called while no Identity is resolved emits exactly one *)
(* error event, makes no HTTP request and leaves the credential, Active    *)
(* Shard and the connection state unchanged.                               *)
(***************************************************************************)
C7_SendCommandWithoutIdentity ==
    (last.op = "sendCommand" /\ pre.userId = None)
        => /\ effects = << <<"emit", "error", "Cannot send command: Not authenticated.">> >>
           /\ fields = FieldsOf(pre) /\ sock = pre.sock /\ pc = pre.pc

\* called after an identity response that carried no _id
C7_Witness ==
    /\ last.op = "sendCommand"
    /\ pre.userId = None
    /\ pre.pc[1] = "done"

(***************************************************************************)
(* C8.  disconnect() called when no transport exists (also before any      *)
(* connect()) returns normally and emits exactly one disconnected status   *)
(* event; it closes nothing, so that no other disconnected event follows   *)
(* from the call.                                                          *)
(***************************************************************************)
C8_DisconnectWithoutTransport ==
    (last.op = "disconnect" /\ pre.ws = Null)
        => /\ effects = << <<"connected", FALSE>>, <<"emit", "status", "disconnected">> >>
           /\ after = <<>>

\* before any connect()
C8_Witness ==
    /\ last.op = "disconnect"
    /\ pre.ws = Null
    /\ \A k \in Calls : pre.pc[k] = "idle"

(***************************************************************************)
(* C9.  disconnect() can be called in every reachable state; right after   *)
(* it the connected flag is false, the transport reference is empty and    *)
(* the pending-connect slot is empty; no handle is rejected twice, and the *)
(* close or error notification of a transport that finds the slot empty    *)
(* settles nothing.                                                        *)
(***************************************************************************)
C9_DisconnectSafe ==
    /\ ENABLED Disconnect
    /\ last.op = "disconnect" => ~connected /\ ws = Null /\ pendingConnect = Null
    /\ \A k \in Calls : settled[k] <= 1
    /\ (last.op \in {"close", "error"} /\ pre.pendingConnect = Null)
           => Settles(effects) = <<>>

\* the close notification of a transport that disconnect() closed while its
\* connect was pending: the handle was not rejected
C9_Witness ==
    /\ last.op = "close"
    /\ pre.intentionalClose
    /\ pre.ws = Null
    /\ settled[last.k] = 0
    /\ pc[last.k] = "ws"

(***************************************************************************)
(* C10.  As claimed: in every reachable state at most one pending-connect  *)
(* handle is outstanding, that is created and neither resolved nor         *)
(* rejected yet.                                                           *)
(***************************************************************************)
Outstanding(k) == sock[k] # "none" /\ settled[k] = 0

C11_RequestedCloseIsSilent ==
    (last.op = "close" /\ pre.sock[last.k] = "CLOSING")
        => EventsOn(effects, "status") = <<>>

(***************************************************************************)
(* C12.  When the current transport is closed by the server or the network *)
(* (the client has not called close() on it) and the connection was        *)
(* connected, the 'close' handler emits exactly one disconnected status    *)
(* event and the connected flag becomes false.                             *)
(***************************************************************************)
C12_UnexpectedClose ==
    (last.op = "close" /\ pre.ws = last.k /\ pre.connected)
        => /\ EventsOn(effects, "status") = <<"disconnected">>
           /\ ~connected

\* an open, authenticated transport was closed under the client
C12_Witness ==
    /\ last.op = "close"
    /\ pre.ws = last.k
    /\ pre.connected
    /\ pre.sock[last.k] = "OPEN"
    /\ pre.pendingConnect = Null
    /\ EventsOn(effects, "status") = <<"disconnected">>

(***************************************************************************)
(* C13.  No automatic reconnect.  An identity request is made only by a    *)
(* connect() call, and a transport is opened only by the connect() call    *)
(* whose identity request succeeded, one per call: the transports opened   *)
(* are never more than the connect() calls made.  The handlers of 'close', *)
(* 'error' and of a frame ("auth failed" included) make no request and     *)
(* open no transport.                                                      *)
(***************************************************************************)
C13_NoAutomaticReconnect ==
    /\ OfKind(effects, {"http"}) # <<>> /\ last.op # "sendCommand"
           => last.op = "connect"
    /\ News(effects) # {}
           => last.op = "identity" /\ News(effects) = {last.k} /\ pre.pc[last.k] = "http"
    /\ \A k \in Calls : pc[k] = "http" /\ pre.pc[k] # "http"
           => last.op = "connect" /\ last.k = k
    /\ \A k \in Calls : sock[k] # "none" => pc[k] \in {"ws", "done"}
    /\ Cardinality({ k \in Calls : sock[k] # "none" })
           <= Cardinality({ k \in Calls : pc[k] # "idle" })
    /\ last.op \in {"close", "error", "message"}
           => /\ OfKind(effects, {"http", "new"}) = <<>>
              /\ \A k \in Calls : pre.sock[k] = "none" => sock[k] = "none"
              /\ \A k \in Calls : pc[k] = "http" => pre.pc[k] = "http"

\* a transport closed after its connect() call had ended: every transport is
\* closed, no request is awaited, and a connect() call is still to be made
C13_Witness ==
    /\ last.op = "close"
    /\ \E k \in Calls : settled[k] = 1 /\ pc[k] = "done" /\ sock[k] = "CLOSED"
    /\ \A k \in Calls : sock[k] \in {"none", "CLOSED"} /\ pc[k] \in {"idle", "done"}
    /\ \E k \in Calls : pc[k] = "idle"
    /\ ~connected

(***************************************************************************)
(* C14.  Credential rotation.  A successful identity response or command   *)
(* response whose rotation header carries a value, and "auth ok <tok>",    *)
(* make that value the current credential, whatever rotations of the HTTP  *)
(* path and of the streaming path came before (last write wins); no other  *)
(* step changes the credential.  The callback is invoked exactly when the  *)
(* credential changes, once, with the new value, so that the argument of   *)
(* its last call is the current credential.                                *)
(***************************************************************************)
\* the value that the rotation header of each response of the inputs carries
Carried(headers) ==
    CASE headers = NoHeaders -> <<>>
      [] headers = [lc |-> T1, uc |-> None] -> T1
      [] headers = [lc |-> None, uc |-> <<" ">> \o T2 \o <<" ">>] -> T2
      [] headers = [lc |-> <<" ">>, uc |-> T2] -> <<>>

C14_Rotation ==
    /\ OfKind(effects, {"onToken"})
           = (IF token # pre.token THEN << <<"onToken", token>> >> ELSE <<>>)
    /\ (last.op \in {"identity", "commandResponse"} /\ last.arg.ok)
           => token = (IF Carried(last.arg.headers) = <<>> THEN pre.token
                       ELSE Carried(last.arg.headers))
    /\ (last.op \in {"identity", "commandResponse"} /\ ~last.arg.ok)
           => token = pre.token
    /\ GotFrame(AuthOkFrame(T2)) => token = T2
    /\ (last.op \notin {"identity", "commandResponse"} /\ ~GotFrame(AuthOkFrame(T2)))
           => token = pre.token

\* a command response rotates the credential that "auth ok <tok>" or an earlier
\* response had rotated
C14_Witness ==
    /\ last.op = "commandResponse"
    /\ pre.token = T2
    /\ token = T1
    /\ effects = << <<"onToken", T1>> >>

(***************************************************************************)
(* C15.  Active Shard is the default "shard3" before any write; a call of  *)
(* setActiveShard(s) and a console payload that reports a shard s set it   *)
(* to s, and no other step changes it, so that it always equals the value  *)
(* of the most recent write.  A command request carries the expression and *)
(* the Active Shard held at the moment sendCommand is called.              *)
(***************************************************************************)
C15_ActiveShard ==
    /\ last.op = "init" => activeShard = JStr(Shard3)
    /\ last.op = "setActiveShard" => activeShard = JStr(last.arg)
    /\ last.op = "message"
           => /\ \A p \in ShardPayloads :
                     last.arg = PayloadFrame(p) => activeShard = JStr(p.shard)
              /\ (\A p \in ShardPayloads : last.arg # PayloadFrame(p))
                     => activeShard = pre.activeShard
    /\ last.op \notin {"init", "setActiveShard", "message"}
           => activeShard = pre.activeShard
    /\ (last.op = "sendCommand" /\ pre.userId # None)
           => effects = << <<"http", "POST", pre.token, last.arg, pre.activeShard>> >>

\* a command sent after a console payload had reported shard2
C15_Witness ==
    /\ last.op = "sendCommand"
    /\ pre.activeShard = JStr(Shard2)
    /\ effects = << <<"http", "POST", pre.token, last.arg, JStr(Shard2)>> >>

(***************************************************************************)
(* C16.  A shard selected by hand overrides the shard detected from the    *)
(* server's pushes: after setActiveShard(s) the commands sent are tagged   *)
(* with s until the user selects another shard.  Stated on two steps: the  *)
(* step that follows setActiveShard(s), unless it is another call of       *)
(* setActiveShard, leaves Active Shard at s, the tag of the next command.  *)
(***************************************************************************)
C16_ManualSelectionHolds ==
    [][(last.op = "setActiveShard" /\ last'.op # "setActiveShard")
           => activeShard' = JStr(last.arg)]_vars

(***************************************************************************)
(* C17.  Identity is absent until an identity request succeeds (a response *)
(* that carries an _id), which sets it to that _id.  No other step changes *)
(* it: disconnect(), a transport's close or error, "auth failed" and a     *)
(* later identity request that fails or carries no _id leave it as it is,  *)
(* so that once resolved it is never absent again.                         *)
(***************************************************************************)
C17_Identity ==
    /\ last.op = "init" => userId = None
    /\ (last.op = "identity" /\ last.arg.ok /\ last.arg.id # None)
           => userId = last.arg.id
    /\ (last.op = "identity" /\ (~last.arg.ok \/ last.arg.id = None))
           => userId = pre.userId
    /\ last.op \notin {"init", "identity"} => userId = pre.userId
    /\ pre.userId # None => userId # None

\* a later identity response without _id left the Identity of the first
C17_Witness ==
    /\ last.op = "identity"
    /\ last.arg.ok
    /\ last.arg.id = None
    /\ pre.userId = U1
    /\ userId = U1
    /\ \E k \in Calls : sock[k] = "CLOSED"

(***************************************************************************)
(* C18.  When the identity response carries no _id, the connect() call     *)
(* fails: it throws, after an error event that names the failure.  It      *)
(* opens no transport, creates no pending-connect handle (the slot, the    *)
(* transports and the transport reference stay as they were), leaves       *)
(* Identity unchanged and makes no further request; the call is over.      *)
(***************************************************************************)
C18_NoIdentityField ==
    (last.op = "identity" /\ last.arg.ok /\ last.arg.id = None)
        => /\ after = ConnectCatch(last.k, "Failed to retrieve user ID")
           /\ EventsOn(after, "error")
                  = << <<"Connection failed", "Failed to retrieve user ID">> >>
           /\ pc[last.k] = "done"
           /\ OfKind(effects, {"new", "http", "close", "send", "resolve", "reject", "emit"})
                  = <<>>
           /\ sock = pre.sock
           /\ ws = pre.ws
           /\ pendingConnect = pre.pendingConnect
           /\ connected = pre.connected
           /\ userId = pre.userId
           /\ \A k \in Calls : k # last.k => pc[k] = pre.pc[k]

\* the second of two calls got a response without _id while the handle of the
\* first was in the slot: the slot still holds the handle of the first
C18_Witness ==
    /\ last.op = "identity"
    /\ last.arg.ok
    /\ last.arg.id = None
    /\ last.k = 2
    /\ pre.pendingConnect = 1
    /\ pendingConnect = 1
    /\ after = ConnectCatch(2, "Failed to retrieve user ID")

(***************************************************************************)
(* C19.  sendCommand leaves the connection state alone: from its call to   *)
(* the response of its request, succeeded or failed, the connected flag,   *)
(* the transport reference, the pending-connect slot, Identity and Active  *)
(* Shard are unchanged, and so are the transports and the connect() calls. *)
(* A failed request emits exactly one error event and does nothing else;   *)
(* a request that succeeded does nothing but rotate the credential.        *)
(***************************************************************************)
C19_SendCommandFrame ==
    last.op \in {"sendCommand", "commandResponse"}
        => /\ connected = pre.connected
           /\ ws = pre.ws
           /\ pendingConnect = pre.pendingConnect
           /\ userId = pre.userId
           /\ activeShard = pre.activeShard
           /\ intentionalClose = pre.intentionalClose
           /\ sock = pre.sock /\ pc = pre.pc /\ after = <<>>
           /\ (last.op = "commandResponse" /\ ~last.arg.ok)
                  => /\ effects = << <<"emit", "error", "Command failed">> >>
                     /\ token = pre.token
           /\ (last.op = "commandResponse" /\ last.arg.ok)
                  => OfKind(effects, {"emit", "connected", "close", "new", "send", "http",
                                      "resolve", "reject", "dispatch"}) = <<>>
           /\ last.op = "sendCommand"
                  => /\ Len(effects) = 1
                     /\ OfKind(effects, {"emit", "http"}) = effects
                     /\ token = pre.token

\* the request of a connected client failed: one error event, still connected
C19_Witness ==
    /\ last.op = "commandResponse"
    /\ ~last.arg.ok
    /\ pre.connected
    /\ connected
    /\ ws # Null
    /\ effects = << <<"emit", "error", "Command failed">> >>

(***************************************************************************)
(* C20.  The close or the error of a transport rejects no handle but the   *)
(* one of its own connect attempt: the handle that the 'close' or 'error'  *)
(* handler of transport k rejects is handle k, and when attempt k has      *)
(* resolved already (its handle is settled) the handler rejects no handle  *)
(* at all.                                                                 *)
(***************************************************************************)
C20_OwnHandleOnly ==
    last.op \in {"close", "error"}
        => \A i \in DOMAIN Settles(effects) : Settles(effects)[i][2] = last.k

(***************************************************************************)
(* C21.  For an array frame, every element of the decoded array reaches    *)
(* the dispatcher once and in array order; an element that the dispatcher  *)
(* ignores or drops does not keep the elements after it from being         *)
(* dispatched.  Stated on the frames of InnerLists: the inner messages     *)
(* dispatched are the string elements of the array, all of them, in order. *)
(***************************************************************************)
C21_EveryElementDispatched ==
    last.op = "message" =>
        \A l \in InnerLists :
            last.arg = ArrayFrame(l)
                => Dispatched(effects)
                       = LET strs == SelectSeq(l, LAMBDA m : m.t = "str")
                         IN  [i \in 1..Len(strs) |-> strs[i].v]

(***************************************************************************)
(* C22.  On every transport the first message sent is "auth <credential>", *)
(* sent when it opens; "subscribe user:<Identity>/console" is sent on a    *)
(* transport only after an "auth ok" was received on it, once for each     *)
(* successful handshake, and names the Identity; nothing is written to a   *)
(* transport that is not open.  The subscribe message is sent by the       *)
(* handler of the frame that carries "auth ok": the claim requires that it *)
(* goes to the transport that delivered the frame.                         *)
(***************************************************************************)
C22_SubscribeOnOwnTransport ==
    last.op = "message"
        => \A i \in DOMAIN OfKind(effects, {"send"}) :
               OfKind(effects, {"send"})[i][2] = last.k

(***************************************************************************)
(* C23.  Every request and message that goes out carries the credential    *)
(* that is current when it is sent: the identity request, the in-band auth *)
(* message (the credential rotated by the identity response, if it was),   *)
(* and each command request (the credential rotated by "auth ok" or by an  *)
(* earlier response, if it was).  The step that sends does not change the  *)
(* credential.                                                             *)
(***************************************************************************)
C23_CurrentCredential ==
    /\ \A i \in DOMAIN OfKind(effects, {"http"}) :
           /\ OfKind(effects, {"http"})[i][3] = pre.token
           /\ token = pre.token
           /\ last.op \in {"connect", "sendCommand"}
    /\ last.op = "open"
           => /\ OfKind(effects, {"send"})
                    = << <<"send", last.k,
                           JSONstringify(JArr(<<JStr(AuthChars \o pre.token)>>))>> >>
              /\ token = pre.token
    /\ (last.op = "connect" /\ pre.pendingConnect = Null)
           => OfKind(effects, {"http"}) = << <<"http", "GET", pre.token>> >>
    /\ (last.op = "sendCommand" /\ pre.userId # None)
           => OfKind(effects, {"http"})
                  = << <<"http", "POST", pre.token, last.arg, pre.activeShard>> >>

\* a command of a connected client carries the credential that "auth ok <tok>"
\* or a response header had rotated
C23_Witness ==
    /\ last.op = "sendCommand"
    /\ pre.token = T2
    /\ pre.connected
    /\ effects = << <<"http", "POST", T2, last.arg, pre.activeShard>> >>

(***************************************************************************)
(* C24.  The 'error' handler of a transport emits exactly one error event  *)
(* and, when a handle is in the pending-connect slot, rejects it with the  *)
(* transport error and empties the slot; it does nothing else: the         *)
(* connected flag, the transport reference, Identity, the credential and   *)
(* Active Shard are as before.                                             *)
(***************************************************************************)
C24_ErrorHandler ==
    last.op = "error"
        => /\ effects = << <<"emit", "error", "WebSocket error">> >>
                        \o (IF pre.pendingConnect # Null
                            THEN << <<"reject", pre.pendingConnect, "WebSocket error">> >>
                            ELSE <<>>)
           /\ pendingConnect = Null
           /\ connected = pre.connected
           /\ ws = pre.ws
           /\ userId = pre.userId
           /\ token = pre.token
           /\ activeShard = pre.activeShard
           /\ intentionalClose = pre.intentionalClose

\* an error on the transport of a connected client: still connected, the
\* transport reference still there
C24_Witness ==
    /\ last.op = "error"
    /\ pre.connected
    /\ connected
    /\ pre.ws = last.k
    /\ ws = last.k
    /\ effects = << <<"emit", "error", "WebSocket error">> >>

(***************************************************************************)
(* C25.  A console payload with an error and no messages emits exactly one *)
(* console event, the error text behind the error prefix; a payload with   *)
(* neither messages nor error emits no event; a payload with messages      *)
(* emits its log and result events only, and no event for the error, also  *)
(* when it has an error field.                                             *)
(***************************************************************************)
\* the frame that carries the console payload named n
ReportFrame(n) == ArrayFrame(<<ChannelMessage(Reports[n])>>)

C25_ErrorOrMessages ==
    /\ GotFrame(ReportFrame("errorOnly"))
           => OfKind(effects, {"emit"})
                  = << <<"emit", "console", JStr(ErrorPrefix \o <<"e">>)>> >>
    /\ GotFrame(ReportFrame("neither")) => OfKind(effects, {"emit"}) = <<>>
    /\ GotFrame(ReportFrame("both"))
           => OfKind(effects, {"emit"}) = << <<"emit", "console", JStr(<<"a">>)>> >>
    /\ last.op = "message"
           => \A p \in ShardPayloads :
                  last.arg = PayloadFrame(p)
                      => /\ Len(OfKind(effects, {"emit"})) = Len(p.log) + Len(p.results)
                         /\ EventsOn(effects, "error") = <<>>

\* {messages: {log: ["a"]}, error: "e"}: the log line, and nothing for the error
C25_Witness ==
    /\ GotFrame(ReportFrame("both"))
    /\ EventsOn(effects, "console") = <<JStr(<<"a">>)>>

(***************************************************************************)
(* C26.  A channel message that is for another channel, that does not      *)
(* parse as [channel, payload], or whose payload is malformed is dropped:  *)
(* the handler emits no event, reports no error, and leaves Active Shard   *)
(* and every other field of the client unchanged.                          *)
(***************************************************************************)
C26_DroppedUntouched ==
    (last.op = "message"
     /\ last.arg \in DroppedFrames
                     \cup { ReportFrame("null"), ReportFrame("badLog"),
                            ReportFrame("badResults") })
        => /\ OfKind(effects, {"emit", "console.error"}) = <<>>
           /\ fields = FieldsOf(pre)
           /\ sock = pre.sock

(***************************************************************************)
(* C27.  The events of a superseded transport do not touch the current     *)
(* connect attempt: once connect() has replaced transport k by a new one,  *)
(* a close, error or message notification of transport k settles no       *)
(* handle, leaves the pending-connect slot as it is and does not change    *)
(* the connected flag.                                                     *)
(***************************************************************************)
C27_SupersededIsInert ==
    (last.op \in {"close", "error", "message"} /\ pre.ws # Null /\ pre.ws # last.k)
        => /\ Settles(effects) = <<>>
           /\ pendingConnect = pre.pendingConnect
           /\ connected = pre.connected

(***************************************************************************)
(* C28.  disconnect() cancels a connect in flight: when it is called while *)
(* a connect() call awaits the identity request or the handshake, and      *)
(* connect() is not called again, no transport is opened afterwards and    *)
(* the client does not become connected.  Stated on two steps: the step    *)
(* that follows such a disconnect(), unless it is a connect() call, opens  *)
(* no transport and leaves the client not connected.                       *)
(***************************************************************************)
C28_DisconnectCancels ==
    [][(last.op = "disconnect" /\ Incomplete(pc) # {} /\ last'.op # "connect")
           => (News(effects') = {} /\ ~connected')]_vars

(***************************************************************************)
(* C29.  Every connect() call completes: when every identity request is    *)
(* answered and every transport opened delivers its events up to its       *)
(* close, a call that was made returns or throws in the end, also when     *)
(* disconnect() or another connect() is called while it is pending.        *)
(***************************************************************************)
C29_ConnectCompletes == \A k \in Calls : (pc[k] # "idle") ~> (pc[k] = "done")

(***************************************************************************)
(* C30.  In every reachable state, when the connected flag is true the     *)
(* client holds a transport reference and the pending-connect slot is      *)
(* empty: connected is never true while the client holds no transport.     *)
(***************************************************************************)
C30_ConnectedHasTransport == connected => (ws # Null /\ pendingConnect = Null)

(***************************************************************************)
(* C31.  Whenever a connect() call returns (its promise resolves) the      *)
(* client is connected at that moment: the step that completes the call is *)
(* the delivery of "auth ok" on the transport the client holds, and it     *)
(* emits the status 'connected'.                                           *)
(***************************************************************************)
C31_ResolvedMeansConnected ==
    \A k \in Calls :
        after = ConnectReturn(k)
            => /\ connected
               /\ last.op = "message" /\ last.k = ws
               /\ \E i \in 1..Len(effects) : effects[i] = <<"emit", "status", "connected">>

(***************************************************************************)
(* C32.  Each failed connect attempt produces exactly one 'disconnected'   *)
(* status event and exactly one error event: the step in which a           *)
(* connect() call throws (the identity is missing, "auth failed" arrives,  *)
(* the transport reports an error or closes before the handshake is        *)
(* complete) emits, handler and catch block together, one of each.         *)
(***************************************************************************)
Emitted(fx, channel) == SelectSeq(fx, LAMBDA e : IsTag(e, "emit") /\ e[2] = channel)

C32_OneOfEach ==
    \A k \in Calls :
        (after # <<>> /\ after[Len(after)] = <<"throw", k>>)
            => /\ Len(SelectSeq(Emitted(effects \o after, "status"),
                                LAMBDA e : e[3] = "disconnected")) = 1
               /\ Len(Emitted(effects \o after, "error")) = 1

====
